---- MODULE Spec2Model ----
(***************************************************************************)
(* Content Disarm and Reconstruction service: the reconstruct and          *)
(* secure-delete handlers of main.py over the three stores uploads/,       *)
(* reconstructed/ and quarantine/, with the validator, the sanitizers, the *)
(* quarantine store and the secure deleter they call; then sanitize_pdf on *)
(* the document it opens (PdfSpec), and the risk analysis module, which no *)
(* handler calls (RiskSpec).                                               *)
(*                                                                         *)
(* A file is a sequence of cells.  A cell of an uploaded body is a byte    *)
(* of Bytes; the metadata sidecar is the one cell JsonDump produces.       *)
(***************************************************************************)
EXTENDS Integers, Sequences, FiniteSets, TLC

VARIABLES uploads, reconstructed, quarantine, clock, faults, rq, dl, pdf, ra

vars == <<uploads, reconstructed, quarantine, clock, faults, rq, dl, pdf, ra>>

\* the state of the library calls that no handler of main.py makes: pdf is a
\* document under sanitize_pdf, ra is one run of the risk analysis module
lib == <<pdf, ra>>

stores == <<uploads, reconstructed, quarantine>>

(***************************************************************************)
(* Bounds of the model.                                                    *)
(***************************************************************************)
\* the storage layer fails at most MaxFaults operations in a run
MaxFaults == 1

\* a run serves at most MaxRequests requests
MaxRequests == 3

\* request slots: each is one HTTP request, from arrival to its response
Reqs == <<"r1", "r2">>

Threads == <<"t1", "t2">>

\* the wall clock takes the values 0..MaxClock: only a reconstruct request
\* reads it, once, so these are all the orders its readings can have
MaxClock == Len(Reqs) - 1

\* byte values: 0 is a plain content byte, 1 is a byte that is not plain
\* content (invalid UTF-8 in a text file, an active root key in a PDF, a
\* non-paragraph part in a DOCX)
Bytes == {0, 1}

\* uploaded bodies
Contents == {<<0>>, <<1>>}

\* declared filenames, as sequences of characters
Filenames ==
  { <<"a", ".", "P", "d", "f">>,
    <<"n", ".", "t", "x", "t">>,
    <<"d", ".", "d", "o", "c", "x">>,
    <<"x", ".", "e", "x", "e">>,
    <<".", "p", "d", "f">>,
    <<>> }

(***************************************************************************)
(* Strings and paths.                                                      *)
(***************************************************************************)
\* str.lower() on one character
LowerChar(c) ==
  CASE c = "P" -> "p"
    [] c = "D" -> "d"
    [] c = "F" -> "f"
    [] c = "T" -> "t"
    [] c = "X" -> "x"
    [] c = "O" -> "o"
    [] c = "C" -> "c"
    [] c = "E" -> "e"
    [] c = "A" -> "a"
    [] c = "N" -> "n"
    [] OTHER -> c

Lower(s) == [i \in 1..Len(s) |-> LowerChar(s[i])]

\* str.rfind of one character: the last index holding c, 0 when there is none
RFind(s, c) ==
  IF \E i \in 1..Len(s) : s[i] = c
    THEN CHOOSE i \in 1..Len(s) : s[i] = c /\ \A j \in (i + 1)..Len(s) : s[j] # c
    ELSE 0

\* os.path.splitext(p)[1]: the text from the last dot on, unless that dot is
\* one of the leading dots of the last path component
SplitExt(p) ==
  LET sepIndex == RFind(p, "/")
      dotIndex == RFind(p, ".")
  IN  IF /\ dotIndex > sepIndex
         /\ \E k \in (sepIndex + 1)..(dotIndex - 1) : p[k] # "."
        THEN SubSeq(p, dotIndex, Len(p))
        ELSE <<>>

ALLOWED_EXTENSIONS ==
  { <<".", "p", "d", "f">>, <<".", "d", "o", "c", "x">>, <<".", "t", "x", "t">> }

\* validate_file without the lower(): the extension is compared as written
validate_file_CaseSensitive(filename) ==
  IF filename = <<>>
    THEN [raise |-> TRUE, ext |-> <<>>]
    ELSE LET ext == SplitExt(filename)
         IN  IF ext \notin ALLOWED_EXTENSIONS
               THEN [raise |-> TRUE, ext |-> ext]
               ELSE [raise |-> FALSE, ext |-> ext]

\* validate_file: the extension, or the ValueError it raises
validate_file(filename) ==
  IF filename = <<>>
    THEN [raise |-> TRUE, ext |-> <<>>]
    ELSE LET ext == SplitExt(Lower(filename))
         IN  IF ext \notin ALLOWED_EXTENSIONS
               THEN [raise |-> TRUE, ext |-> ext]
               ELSE [raise |-> FALSE, ext |-> ext]

\* os.path.join(UPLOADS, file.filename): the key of the uploads store
SavedPath(filename) == filename

\* os.path.join(RECON, f"safe_{file.filename}")
CleanPath(filename) == <<"s", "a", "f", "e", "_">> \o filename

\* os.path.join(QUARANTINE, sha)
DestPath(sha) == <<sha>>

\* dest_path + ".json"
MetaPath(path) == path \o <<".json">>

(***************************************************************************)
(* Files.                                                                  *)
(***************************************************************************)
\* the directory with the file at path created or replaced
PutFile(dir, path, data) ==
  [p \in DOMAIN dir \cup {path} |-> IF p = path THEN data ELSE dir[p]]

\* the directory with the entry at path unlinked
Unlink(dir, path) == [p \in DOMAIN dir \ {path} |-> dir[p]]

\* write(data) through a handle at offset pos: earlier cells are kept, a gap
\* past the end of the file reads as zero bytes
WriteAt(old, pos, data) ==
  LET n == IF Len(old) > pos + Len(data) THEN Len(old) ELSE pos + Len(data)
  IN  [i \in 1..n |->
        IF i > pos /\ i <= pos + Len(data) THEN data[i - pos]
        ELSE IF i <= Len(old) THEN old[i]
        ELSE 0]

(***************************************************************************)
(* Hashing, metadata and the sanitizers.                                   *)
(***************************************************************************)
\* the digest of a byte sequence: deterministic, and distinct for distinct
\* contents (each byte is one base-3 digit 1 or 2, so no two sequences agree)
RECURSIVE Sha256(_)
Sha256(bytes) ==
  IF bytes = <<>> THEN 0
  ELSE 3 * Sha256(SubSeq(bytes, 1, Len(bytes) - 1)) + bytes[Len(bytes)] + 1

\* compute_sha256(saved_path): the digest of the file's current content
compute_sha256(dir, path) == Sha256(dir[path])

\* the digests a delete request may name: those of the uploadable bodies and
\* one that no body has
Digests == {Sha256(c) : c \in Contents} \cup {Sha256(<<1, 1, 1>>)}

\* the reason main.py gives quarantine_file
Reasons == <<"reconstruction">>

ReasonCode(reason) ==
  IF \E i \in 1..Len(Reasons) : Reasons[i] = reason
    THEN CHOOSE i \in 1..Len(Reasons) : Reasons[i] = reason
    ELSE 0

\* the first cell value that is no byte: cells from here on are JSON text
MetaTag == Cardinality(Bytes)

\* the meta dict quarantine_file builds
Meta(sha, reason, time) == [hash |-> sha, reason |-> reason, time |-> time]

\* JsonDump of a record whose time is never refreshed
JsonDump_StaleTime(meta) ==
  << MetaTag + (meta.hash * (MaxClock + 1)) * (Len(Reasons) + 1)
             + ReasonCode(meta.reason) >>

\* json.dump(meta, f): the record serialised into the one cell of the sidecar
JsonDump(meta) ==
  << MetaTag + (meta.hash * (MaxClock + 1) + meta.time) * (Len(Reasons) + 1)
             + ReasonCode(meta.reason) >>

\* whether a file's content is a serialised meta record
IsJson(file) ==
  /\ Len(file) = 1
  /\ file[1] >= MetaTag
  /\ (file[1] - MetaTag) % (Len(Reasons) + 1) \in 1..Len(Reasons)

\* json.load of a well-formed sidecar
JsonLoad(file) ==
  LET v == file[1] - MetaTag
      w == v \div (Len(Reasons) + 1)
  IN  Meta(w \div (MaxClock + 1), Reasons[v % (Len(Reasons) + 1)], w % (MaxClock + 1))

\* the provenance banner sanitize_txt puts first
Banner == <<Cardinality(Bytes)>>

\* sanitize_txt: decoding drops the invalid bytes; never raises
sanitize_txt(bytes) ==
  [raise |-> FALSE, out |-> Banner \o SelectSeq(bytes, LAMBDA b : b = 0)]

\* sanitize_pdf: opening raises unless the file starts as a PDF does; the
\* root's active keys are deleted and the document is saved again
sanitize_pdf(bytes) ==
  IF bytes = <<>> \/ bytes[1] # 0
    THEN [raise |-> TRUE, out |-> <<>>]
    ELSE [raise |-> FALSE, out |-> SelectSeq(bytes, LAMBDA b : b = 0)]

\* sanitize_docx: opening raises unless the file is an archive; the output is
\* a new document holding the paragraphs' text only
sanitize_docx(bytes) ==
  IF bytes = <<>> \/ bytes[1] # 1
    THEN [raise |-> TRUE, out |-> <<>>]
    ELSE [raise |-> FALSE, out |-> <<1>> \o SelectSeq(Tail(bytes), LAMBDA b : b = 0)]

\* Dispatch with the text branch copying the file as it is
Dispatch_Passthrough(ext, bytes) ==
  IF ext = <<".", "p", "d", "f">> THEN
    [sanitize_pdf(bytes) EXCEPT !.raise = IF @ THEN "SanitizeError" ELSE ""]
  ELSE IF ext = <<".", "d", "o", "c", "x">> THEN
    [sanitize_docx(bytes) EXCEPT !.raise = IF @ THEN "SanitizeError" ELSE ""]
  ELSE IF ext = <<".", "t", "x", "t">> THEN
    [raise |-> "", out |-> bytes]
  ELSE [raise |-> "HTTPException", out |-> <<>>]

\* the if/elif chain of reconstruct_file over the validated extension
Dispatch(ext, bytes) ==
  IF ext = <<".", "p", "d", "f">> THEN
    [sanitize_pdf(bytes) EXCEPT !.raise = IF @ THEN "SanitizeError" ELSE ""]
  ELSE IF ext = <<".", "d", "o", "c", "x">> THEN
    [sanitize_docx(bytes) EXCEPT !.raise = IF @ THEN "SanitizeError" ELSE ""]
  ELSE IF ext = <<".", "t", "x", "t">> THEN
    [sanitize_txt(bytes) EXCEPT !.raise = IF @ THEN "SanitizeError" ELSE ""]
  ELSE [raise |-> "HTTPException", out |-> <<>>]

(***************************************************************************)
(* sanitize_pdf on the document pikepdf opens.  A dictionary is the set of  *)
(* its keys that matter here; a document is its root dictionary, the name   *)
(* dictionary under /Names, and its pages with their annotations.           *)
(***************************************************************************)
\* a document has at most MaxPages pages
MaxPages == 2

\* a page has at most MaxAnnots annotations
MaxAnnots == 1

\* sanitize_pdf is applied at most MaxPasses times, each to the last output
MaxPasses == 2

RootKeys == {"/OpenAction", "/AA", "/AcroForm", "/Names"}

NameKeys == {"/JavaScript", "/Dests"}

NodeKeys == {"/AA"}

\* the sequences of at most n elements of S
SeqsUpTo(S, n) == UNION {[1..k -> S] : k \in 0..n}

\* a page: its own dictionary and the dictionaries of its annotations
PdfPages == [dict : SUBSET NodeKeys, annots : SeqsUpTo(SUBSET NodeKeys, MaxAnnots)]

\* the well-formed documents: there is a name dictionary only under /Names
PdfDocs ==
  { d \in [root : SUBSET RootKeys, names : SUBSET NameKeys,
           pages : SeqsUpTo(PdfPages, MaxPages)] :
      "/Names" \notin d.root => d.names = {} }

\* for key in keys: if key in dict: del dict[key]
DelKeys(dict, keys) == dict \ keys

\* the body of sanitize_pdf with the loop of lines 9-11 left at its first
\* deletion
SanitizePdfDoc_FirstOnly(doc) ==
  LET root1 == IF "/OpenAction" \in doc.root THEN DelKeys(doc.root, {"/OpenAction"})
               ELSE DelKeys(doc.root, {"/AA"})
      root2 == DelKeys(root1, {"/AcroForm"})
      names == IF "/Names" \in root2 THEN DelKeys(doc.names, {"/JavaScript"})
               ELSE doc.names
  IN  [root |-> root2, names |-> names, pages |-> doc.pages]

\* pdf_sanitizer.py 6-25: what sanitize_pdf deletes from the opened document,
\* and the document pdf.save writes
SanitizePdfDoc(doc) ==
  LET root1 == DelKeys(doc.root, {"/OpenAction", "/AA"})
      root2 == DelKeys(root1, {"/AcroForm"})
      names == IF "/Names" \in root2 THEN DelKeys(doc.names, {"/JavaScript"})
               ELSE doc.names
  IN  [root |-> root2, names |-> names, pages |-> doc.pages]

\* no document is under the sanitizer
IdlePdf == [pc |-> "idle", input |-> [root |-> {}, names |-> {}, pages |-> <<>>], out |-> <<>>]

(***************************************************************************)
(* The risk analysis module: community_score, calculate_risk and recommend. *)
(* No handler of main.py calls them; a caller calls each with inputs of its *)
(* own or with the value the call before returned.  A run is one chain of  *)
(* calls: it starts at any of the three with the caller's inputs, and each  *)
(* later call is handed the value the call before it returned.              *)
(***************************************************************************)
\* a voting record counts at most MaxVotes votes of each kind
MaxVotes == 10

\* the component scores a caller hands calculate_risk
Scores == {-5, 0, 10, 20, 29, 40}

\* the scores a caller hands recommend
Aggregates == 0..100

\* the keys a caller looks up
Hashes == {"hash1", "hash2", "hash3"}

\* community_reputation.py 1-4: the module's dict as the code ships it
community_db ==
  [h \in {"hash1", "hash2"} |->
     IF h = "hash1" THEN [malicious |-> 8, clean |-> 1]
     ELSE [malicious |-> 0, clean |-> 10]]

\* the dicts a run may find in community_db: the shipped one, and the ones
\* that hold one record under "hash1"
CommunityDbs ==
  {community_db} \cup
  { [h \in {"hash1"} |-> [malicious |-> m, clean |-> c]] : m \in 0..MaxVotes, c \in 0..MaxVotes }

\* community_reputation.py 6-12: a missing record scores 0; int() cuts the
\* scaled ratio down to a whole number; the division raises for a record
\* without votes (a record is a dict with two keys, so "not data" is false)
community_score(db, file_hash) ==
  IF file_hash \notin DOMAIN db THEN [raise |-> "", ret |-> 0]
  ELSE LET data == db[file_hash]
           total == data.malicious + data.clean
       IN  IF total = 0 THEN [raise |-> "ZeroDivisionError", ret |-> 0]
           ELSE [raise |-> "", ret |-> (data.malicious * 20) \div total]

\* calculate_risk with the sum wrapping at the upper bound
calculate_risk_Wrap(static_score, behavior_score, source_score, community) ==
  (static_score + behavior_score + source_score + community) % 101

\* risk_score.py 1-5
calculate_risk(static_score, behavior_score, source_score, community) ==
  LET sum == static_score + behavior_score + source_score + community
  IN  IF sum < 100 THEN sum ELSE 100

\* recommend with the lower edge of the quarantine tier exclusive
recommend_Exclusive(risk_score) ==
  IF risk_score >= 70 THEN "Delete immediately. High risk malware detected."
  ELSE IF risk_score > 30 THEN "Quarantine the file and avoid execution."
  ELSE "File appears safe. No action required."

\* recommendation_engine.py 1-7
recommend(risk_score) ==
  IF risk_score >= 70 THEN "Delete immediately. High risk malware detected."
  ELSE IF risk_score >= 30 THEN "Quarantine the file and avoid execution."
  ELSE "File appears safe. No action required."

\* one call of the module: the function, its arguments, the exception it
\* raised or the value it returned, and the call whose value it was handed
Call(fn, args, raise, ret, prev) ==
  [fn |-> fn, args |-> args, raise |-> raise, ret |-> ret, prev |-> prev]

\* no call made yet
IdleRa == Call("", <<>>, "", 0, <<>>)

\* a call as the next call remembers it
Prev(call) == <<[call EXCEPT !.prev = <<>>]>>

(***************************************************************************)
(* Requests.  rq[r] is a reconstruct request and dl[t] a secure-delete     *)
(* request: the handler's position (pc), its locals, and, once it is done, *)
(* its outcome: "success", or the exception that left the handler and the  *)
(* position it was raised at.                                              *)
(***************************************************************************)
\* the slots of a sequence of slot names
Slots(names) == {names[i] : i \in 1..Len(names)}

NoHash == Sha256(<<>>) - 1

IdleReq ==
  [pc |-> "idle", filename |-> <<>>, body |-> <<>>, ext |-> <<>>,
   file_hash |-> NoHash, time |-> 0, attached |-> FALSE,
   status |-> "", raisedAt |-> ""]

IdleDel ==
  [pc |-> "idle", file_hash |-> NoHash, path |-> <<>>, size |-> 0, pos |-> 0,
   pass |-> 0, attached |-> FALSE, status |-> "", raisedAt |-> ""]

Init ==
  /\ uploads = <<>>
  /\ reconstructed = <<>>
  /\ quarantine = <<>>
  /\ clock = 0
  /\ faults = 0
  /\ rq = [r \in Slots(Reqs) |-> IdleReq]
  /\ dl = [t \in Slots(Threads) |-> IdleDel]
  /\ pdf = IdlePdf
  /\ ra = IdleRa

Running(slot) == slot.pc \notin {"idle", "done"}

\* the number of handlers between their entry and their response
InFlight ==
  Cardinality({r \in Slots(Reqs) : Running(rq[r])}) + Cardinality({t \in Slots(Threads) : Running(dl[t])})

\* the number of requests that have arrived
Arrived ==
  Cardinality({r \in Slots(Reqs) : rq[r].pc # "idle"})
    + Cardinality({t \in Slots(Threads) : dl[t].pc # "idle"})

\* a handler that awaits in its body: the event loop may enter another one
CoroutineMayRun_Await(r) == TRUE

\* reconstruct_file is a coroutine with no await in its body: the event loop
\* runs it from entry to response before it enters another one
CoroutineMayRun(r) == \A o \in Slots(Reqs) \ {r} : ~Running(rq[o])

\* an exception leaves the handler: its locals are dropped
RaiseReq(r, kind) ==
  rq' = [rq EXCEPT ![r] = [IdleReq EXCEPT !.pc = "done", !.status = kind,
                                           !.raisedAt = rq[r].pc]]

RaiseDel(t, kind) ==
  dl' = [dl EXCEPT ![t] = [IdleDel EXCEPT !.pc = "done", !.status = kind,
                                           !.raisedAt = dl[t].pc,
                                           !.file_hash = dl[t].file_hash]]

\* a storage failure is what raises IOError; a run has at most MaxFaults
FaultsReq(r) ==
  /\ faults' = faults + (IF rq'[r].status = "IOError" THEN 1 ELSE 0)
  /\ faults' <= MaxFaults

FaultsDel(t) ==
  /\ faults' = faults + (IF dl'[t].status = "IOError" THEN 1 ELSE 0)
  /\ faults' <= MaxFaults

\* requests take the slots in order
InOrder(names, slot, x) ==
  \A i \in 1..Len(names) :
    (\E j \in (i + 1)..Len(names) : names[j] = x) => slot[names[i]].pc # "idle"

\* the open handles on path lose the file when path is unlinked or replaced
DetachDel(d, path) ==
  [t \in Slots(Threads) |->
    IF d[t].pc = "write" /\ d[t].path = path THEN [d[t] EXCEPT !.attached = FALSE] ELSE d[t]]

DetachReq(q, path) ==
  [r \in Slots(Reqs) |->
    IF q[r].pc = "meta_dump" /\ MetaPath(DestPath(q[r].file_hash)) = path
      THEN [q[r] EXCEPT !.attached = FALSE] ELSE q[r]]

(***************************************************************************)
(* reconstruct_file                                                        *)
(***************************************************************************)
\* main.py 41-44: the request enters the handler, which validates the name
Validate(r, limit) ==
  /\ rq[r].pc = "idle"
  /\ InOrder(Reqs, rq, r)
  /\ Arrived < MaxRequests
  /\ InFlight < limit
  /\ CoroutineMayRun(r)
  /\ \E filename \in Filenames, body \in Contents :
       LET v == validate_file(filename)
       IN  rq' = [rq EXCEPT ![r] =
                   IF v.raise
                     THEN [IdleReq EXCEPT !.pc = "done", !.status = "ValueError",
                                          !.raisedAt = "validate", !.filename = filename]
                     ELSE [IdleReq EXCEPT !.pc = "save_open", !.filename = filename,
                                          !.body = body, !.ext = v.ext]]
  /\ UNCHANGED <<uploads, reconstructed, quarantine, clock, faults, dl>>
  /\ UNCHANGED lib

\* main.py 46-49: open(saved_path, "wb") creates or truncates the upload
SaveOpen(r) ==
  /\ rq[r].pc = "save_open"
  /\ \/ /\ uploads' = PutFile(uploads, SavedPath(rq[r].filename), <<>>)
        /\ rq' = [rq EXCEPT ![r].pc = "save_copy"]
     \/ /\ RaiseReq(r, "IOError")
        /\ UNCHANGED uploads
  /\ UNCHANGED <<reconstructed, quarantine, clock, dl>>
  /\ FaultsReq(r)
  /\ UNCHANGED lib

\* main.py 50: copyfileobj writes the body; a failing write leaves a prefix
SaveCopy(r) ==
  /\ rq[r].pc = "save_copy"
  /\ LET path == SavedPath(rq[r].filename)
         old == IF path \in DOMAIN uploads THEN uploads[path] ELSE <<>>
     IN  \/ /\ uploads' = IF path \in DOMAIN uploads
                            THEN PutFile(uploads, path, WriteAt(old, 0, rq[r].body))
                            ELSE uploads
            /\ rq' = [rq EXCEPT ![r].pc = "hash"]
         \/ /\ \E k \in 0..(Len(rq[r].body) - 1) :
                 uploads' = IF path \in DOMAIN uploads
                              THEN PutFile(uploads, path, WriteAt(old, 0, SubSeq(rq[r].body, 1, k)))
                              ELSE uploads
            /\ RaiseReq(r, "IOError")
  /\ UNCHANGED <<reconstructed, quarantine, clock, dl>>
  /\ FaultsReq(r)
  /\ UNCHANGED lib

\* main.py 53: hash the saved original
Hash(r) ==
  /\ rq[r].pc = "hash"
  /\ LET path == SavedPath(rq[r].filename)
     IN  IF path \in DOMAIN uploads
           THEN rq' = [rq EXCEPT ![r].pc = "sanitize",
                                 ![r].file_hash = compute_sha256(uploads, path)]
           ELSE RaiseReq(r, "FileNotFoundError")
  /\ UNCHANGED <<uploads, reconstructed, quarantine, clock, faults, dl>>
  /\ UNCHANGED lib

\* Sanitize with the sanitizer's exception caught and dropped: the handler
\* goes on to quarantine the original
Sanitize_Swallow(r) ==
  /\ rq[r].pc = "sanitize"
  /\ LET path == SavedPath(rq[r].filename)
         res == Dispatch(rq[r].ext, uploads[path])
     IN  IF path \notin DOMAIN uploads
           THEN RaiseReq(r, "FileNotFoundError") /\ UNCHANGED reconstructed
         ELSE IF res.raise # ""
           THEN rq' = [rq EXCEPT ![r].pc = "move"] /\ UNCHANGED reconstructed
         ELSE /\ reconstructed' = PutFile(reconstructed, CleanPath(rq[r].filename), res.out)
              /\ rq' = [rq EXCEPT ![r].pc = "move"]
  /\ UNCHANGED <<uploads, quarantine, clock, faults, dl>>
  /\ UNCHANGED lib

\* Sanitize that keeps a clean file already there under the name
Sanitize_KeepFirst(r) ==
  /\ rq[r].pc = "sanitize"
  /\ LET path == SavedPath(rq[r].filename)
         res == Dispatch(rq[r].ext, uploads[path])
     IN  IF path \notin DOMAIN uploads
           THEN RaiseReq(r, "FileNotFoundError") /\ UNCHANGED reconstructed
         ELSE IF res.raise # ""
           THEN RaiseReq(r, res.raise) /\ UNCHANGED reconstructed
         ELSE /\ reconstructed' = IF CleanPath(rq[r].filename) \in DOMAIN reconstructed
                                    THEN reconstructed
                                    ELSE PutFile(reconstructed, CleanPath(rq[r].filename), res.out)
              /\ rq' = [rq EXCEPT ![r].pc = "move"]
  /\ UNCHANGED <<uploads, quarantine, clock, dl>>
  /\ FaultsReq(r)
  /\ UNCHANGED lib

\* main.py 56-71: the sanitizer chosen by the extension reads the original
\* and writes the clean file; a failing write leaves the output truncated
Sanitize(r) ==
  /\ rq[r].pc = "sanitize"
  /\ LET path == SavedPath(rq[r].filename)
         res == Dispatch(rq[r].ext, uploads[path])
     IN  IF path \notin DOMAIN uploads
           THEN RaiseReq(r, "FileNotFoundError") /\ UNCHANGED reconstructed
         ELSE IF res.raise # ""
           THEN RaiseReq(r, res.raise) /\ UNCHANGED reconstructed
         ELSE \/ /\ reconstructed' = PutFile(reconstructed, CleanPath(rq[r].filename), res.out)
                 /\ rq' = [rq EXCEPT ![r].pc = "move"]
              \/ /\ reconstructed' = PutFile(reconstructed, CleanPath(rq[r].filename), <<>>)
                 /\ RaiseReq(r, "IOError")
  /\ UNCHANGED <<uploads, quarantine, clock, dl>>
  /\ FaultsReq(r)
  /\ UNCHANGED lib

\* Move with shutil.copy in place of shutil.move: the original stays
Move_Copy(r) ==
  /\ rq[r].pc = "move"
  /\ LET path == SavedPath(rq[r].filename)
         dest == DestPath(rq[r].file_hash)
     IN  \/ /\ path \in DOMAIN uploads
            /\ quarantine' = PutFile(quarantine, dest, uploads[path])
            /\ dl' = DetachDel(dl, dest)
            /\ rq' = [rq EXCEPT ![r].pc = "meta_open"]
         \/ /\ path \notin DOMAIN uploads
            /\ RaiseReq(r, "FileNotFoundError")
            /\ UNCHANGED <<quarantine, dl>>
  /\ UNCHANGED <<uploads, reconstructed, clock, faults>>
  /\ UNCHANGED lib

\* quarantine.py 7-9: shutil.move renames the original onto quarantine/<sha>
Move(r) ==
  /\ rq[r].pc = "move"
  /\ LET path == SavedPath(rq[r].filename)
         dest == DestPath(rq[r].file_hash)
     IN  \/ /\ path \in DOMAIN uploads
            /\ quarantine' = PutFile(quarantine, dest, uploads[path])
            /\ uploads' = Unlink(uploads, path)
            /\ dl' = DetachDel(dl, dest)
            /\ rq' = [rq EXCEPT ![r].pc = "meta_open"]
         \/ /\ path \notin DOMAIN uploads
            /\ RaiseReq(r, "FileNotFoundError")
            /\ UNCHANGED <<uploads, quarantine, dl>>
         \/ /\ path \in DOMAIN uploads
            /\ RaiseReq(r, "IOError")
            /\ UNCHANGED <<uploads, quarantine, dl>>
  /\ UNCHANGED <<reconstructed, clock>>
  /\ FaultsReq(r)
  /\ UNCHANGED lib

\* quarantine.py 12-17: the meta dict reads the clock, then open(..., "w")
\* creates or truncates the sidecar
MetaOpen(r) ==
  /\ rq[r].pc = "meta_open"
  /\ \E now \in clock..MaxClock :
       /\ clock' = now
       /\ \/ /\ quarantine' = PutFile(quarantine, MetaPath(DestPath(rq[r].file_hash)), <<>>)
             /\ rq' = [rq EXCEPT ![r].pc = "meta_dump", ![r].time = now, ![r].attached = TRUE]
          \/ /\ RaiseReq(r, "IOError")
             /\ UNCHANGED quarantine
  /\ UNCHANGED <<uploads, reconstructed, dl>>
  /\ FaultsReq(r)
  /\ UNCHANGED lib

\* quarantine.py 18-19, main.py 76-79: json.dump and the close write the
\* record, and the handler returns the clean name and the hash
MetaDump(r) ==
  /\ rq[r].pc = "meta_dump"
  /\ LET path == MetaPath(DestPath(rq[r].file_hash))
         meta == Meta(rq[r].file_hash, Reasons[1], rq[r].time)
     IN  \/ /\ quarantine' = IF rq[r].attached /\ path \in DOMAIN quarantine
                               THEN PutFile(quarantine, path, WriteAt(quarantine[path], 0, JsonDump(meta)))
                               ELSE quarantine
            /\ rq' = [rq EXCEPT ![r] = [IdleReq EXCEPT !.pc = "done", !.status = "success",
                                                       !.filename = rq[r].filename,
                                                       !.file_hash = rq[r].file_hash]]
         \/ /\ RaiseReq(r, "IOError")
            /\ UNCHANGED quarantine
  /\ UNCHANGED <<uploads, reconstructed, clock, dl>>
  /\ FaultsReq(r)
  /\ UNCHANGED lib

(***************************************************************************)
(* secure_delete_file and secure_delete                                    *)
(***************************************************************************)
\* secure_delete's passes parameter
Passes == 2

\* NextTarget without the sidecar: the handler returns after the artifact
NextTarget_NoSidecar(t) ==
  [IdleDel EXCEPT !.pc = "done", !.status = "success", !.file_hash = dl[t].file_hash]

\* after the artifact the handler turns to the sidecar (main.py 109), and
\* after the sidecar it returns success (main.py 112-115)
NextTarget(t) ==
  IF dl[t].path = DestPath(dl[t].file_hash)
    THEN [dl[t] EXCEPT !.pc = "main_exists", !.path = MetaPath(dl[t].path),
                       !.size = 0, !.pos = 0, !.pass = 0, !.attached = FALSE]
    ELSE [IdleDel EXCEPT !.pc = "done", !.status = "success",
                         !.file_hash = dl[t].file_hash]

\* main.py 102-104: the request enters the handler on a worker thread
DeleteBegin(t, limit) ==
  /\ dl[t].pc = "idle"
  /\ InOrder(Threads, dl, t)
  /\ Arrived < MaxRequests
  /\ InFlight < limit
  /\ \E file_hash \in Digests :
       dl' = [dl EXCEPT ![t] = [IdleDel EXCEPT !.pc = "main_exists", !.file_hash = file_hash,
                                               !.path = DestPath(file_hash)]]
  /\ UNCHANGED <<uploads, reconstructed, quarantine, clock, faults, rq>>
  /\ UNCHANGED lib

\* MainExists answering a missing path with an error
MainExists_Strict(t) ==
  /\ dl[t].pc = "main_exists"
  /\ IF dl[t].path \in DOMAIN quarantine
       THEN dl' = [dl EXCEPT ![t].pc = "sd_exists"]
       ELSE RaiseDel(t, "FileNotFoundError")
  /\ UNCHANGED <<uploads, reconstructed, quarantine, clock, faults, rq>>
  /\ UNCHANGED lib

\* main.py 106, 109: os.path.exists of the artifact, then of the sidecar
MainExists(t) ==
  /\ dl[t].pc = "main_exists"
  /\ dl' = [dl EXCEPT ![t] = IF dl[t].path \in DOMAIN quarantine
                               THEN [@ EXCEPT !.pc = "sd_exists"]
                               ELSE NextTarget(t)]
  /\ UNCHANGED <<uploads, reconstructed, quarantine, clock, faults, rq>>
  /\ UNCHANGED lib

\* secure_delete.py 5-6: a missing path returns at once
SdExists(t) ==
  /\ dl[t].pc = "sd_exists"
  /\ dl' = [dl EXCEPT ![t] = IF dl[t].path \in DOMAIN quarantine
                               THEN [@ EXCEPT !.pc = "getsize"]
                               ELSE NextTarget(t)]
  /\ UNCHANGED <<uploads, reconstructed, quarantine, clock, faults, rq>>
  /\ UNCHANGED lib

\* secure_delete.py 8: os.path.getsize raises on a path that is gone
GetSize(t) ==
  /\ dl[t].pc = "getsize"
  /\ IF dl[t].path \in DOMAIN quarantine
       THEN dl' = [dl EXCEPT ![t].pc = "open", ![t].size = Len(quarantine[dl[t].path])]
       ELSE RaiseDel(t, "FileNotFoundError")
  /\ UNCHANGED <<uploads, reconstructed, quarantine, clock, faults, rq>>
  /\ UNCHANGED lib

\* secure_delete.py 9: open(path, "wb") truncates the file, or creates it
Open(t) ==
  /\ dl[t].pc = "open"
  /\ \/ /\ quarantine' = PutFile(quarantine, dl[t].path, <<>>)
        /\ dl' = [dl EXCEPT ![t].pc = IF Passes > 0 THEN "write" ELSE "remove",
                            ![t].pos = 0, ![t].pass = 0, ![t].attached = TRUE]
     \/ /\ RaiseDel(t, "IOError")
        /\ UNCHANGED quarantine
  /\ UNCHANGED <<uploads, reconstructed, clock, rq>>
  /\ FaultsDel(t)
  /\ UNCHANGED lib

\* secure_delete.py 10-11: one pass writes size random bytes where the
\* handle stands; after the last pass the with block closes the file
Write(t) ==
  /\ dl[t].pc = "write"
  /\ LET path == dl[t].path
     IN  \/ \E data \in [1..dl[t].size -> Bytes] :
              /\ quarantine' = IF dl[t].attached /\ path \in DOMAIN quarantine
                                 THEN PutFile(quarantine, path,
                                              WriteAt(quarantine[path], dl[t].pos, data))
                                 ELSE quarantine
              /\ dl' = [dl EXCEPT ![t].pos = @ + dl[t].size,
                                  ![t].pass = @ + 1,
                                  ![t].pc = IF dl[t].pass + 1 < Passes THEN "write" ELSE "remove",
                                  ![t].attached = IF dl[t].pass + 1 < Passes THEN @ ELSE FALSE]
         \/ /\ RaiseDel(t, "IOError")
            /\ UNCHANGED quarantine
  /\ UNCHANGED <<uploads, reconstructed, clock, rq>>
  /\ FaultsDel(t)
  /\ UNCHANGED lib

\* secure_delete.py 12: os.remove unlinks the path, or raises when it is gone
Remove(t) ==
  /\ dl[t].pc = "remove"
  /\ LET path == dl[t].path
     IN  \/ /\ path \in DOMAIN quarantine
            /\ quarantine' = Unlink(quarantine, path)
            /\ dl' = [DetachDel(dl, path) EXCEPT ![t] = NextTarget(t)]
            /\ rq' = DetachReq(rq, path)
         \/ /\ path \notin DOMAIN quarantine
            /\ RaiseDel(t, "FileNotFoundError")
            /\ UNCHANGED <<quarantine, rq>>
         \/ /\ path \in DOMAIN quarantine
            /\ RaiseDel(t, "IOError")
            /\ UNCHANGED <<quarantine, rq>>
  /\ UNCHANGED <<uploads, reconstructed, clock>>
  /\ FaultsDel(t)
  /\ UNCHANGED lib

(***************************************************************************)
(* The service.                                                            *)
(***************************************************************************)
\* every request slot may be in flight at once
NoLimit == Len(Reqs) + Len(Threads)

Handlers(limit) ==
  \/ \E r \in Slots(Reqs) : Validate(r, limit)
  \/ \E r \in Slots(Reqs) : SaveOpen(r)
  \/ \E r \in Slots(Reqs) : SaveCopy(r)
  \/ \E r \in Slots(Reqs) : Hash(r)
  \/ \E r \in Slots(Reqs) : Sanitize(r)
  \/ \E r \in Slots(Reqs) : Move(r)
  \/ \E r \in Slots(Reqs) : MetaOpen(r)
  \/ \E r \in Slots(Reqs) : MetaDump(r)
  \/ \E t \in Slots(Threads) : DeleteBegin(t, limit)
  \/ \E t \in Slots(Threads) : MainExists(t)
  \/ \E t \in Slots(Threads) : SdExists(t)
  \/ \E t \in Slots(Threads) : GetSize(t)
  \/ \E t \in Slots(Threads) : Open(t)
  \/ \E t \in Slots(Threads) : Write(t)
  \/ \E t \in Slots(Threads) : Remove(t)

\* the deployed service: delete handlers run on worker threads beside the
\* event loop
Next == Handlers(NoLimit)

Spec == Init /\ [][Next]_vars

\* one client that waits for each response before its next request
SerialNext == Handlers(1)

SerialSpec == Init /\ [][SerialNext]_vars

(***************************************************************************)
(* sanitize_pdf called on a document, and again on what it wrote.          *)
(***************************************************************************)
\* a caller hands sanitize_pdf a well-formed document
PdfInput ==
  /\ pdf.pc = "idle"
  /\ \E doc \in PdfDocs : pdf' = [pc |-> "given", input |-> doc, out |-> <<>>]
  /\ UNCHANGED <<uploads, reconstructed, quarantine, clock, faults, rq, dl, ra>>

\* pdf_sanitizer.py 3-25: one call, on the input or on the last output
SanitizePdf ==
  /\ pdf.pc = "given"
  /\ Len(pdf.out) < MaxPasses
  /\ LET doc == IF pdf.out = <<>> THEN pdf.input ELSE pdf.out[Len(pdf.out)]
     IN  pdf' = [pdf EXCEPT !.out = Append(@, SanitizePdfDoc(doc))]
  /\ UNCHANGED <<uploads, reconstructed, quarantine, clock, faults, rq, dl, ra>>

PdfNext == PdfInput \/ SanitizePdf

PdfSpec == Init /\ [][PdfNext]_vars

(***************************************************************************)
(* The calls of the risk analysis module.                                  *)
(***************************************************************************)
\* community_reputation.py 6-12: a lookup of file_hash in the dict as it is
CommunityScore ==
  /\ ra.fn = ""
  /\ \E db \in CommunityDbs, file_hash \in Hashes :
       LET res == community_score(db, file_hash)
       IN  ra' = Call("community_score", <<db, file_hash>>, res.raise, res.ret, <<>>)
  /\ UNCHANGED <<uploads, reconstructed, quarantine, clock, faults, rq, dl, pdf>>

\* risk_score.py 1-5: the community component is the caller's own, or the
\* value community_score has just returned
CalculateRisk ==
  /\ \E static_score \in Scores, behavior_score \in Scores, source_score \in Scores :
       \/ /\ ra.fn = ""
          /\ \E community \in Scores :
               ra' = Call("calculate_risk",
                          <<static_score, behavior_score, source_score, community>>, "",
                          calculate_risk(static_score, behavior_score, source_score, community),
                          <<>>)
       \/ /\ ra.fn = "community_score"
          /\ ra.raise = ""
          /\ ra' = Call("calculate_risk",
                        <<static_score, behavior_score, source_score, ra.ret>>, "",
                        calculate_risk(static_score, behavior_score, source_score, ra.ret),
                        Prev(ra))
  /\ UNCHANGED <<uploads, reconstructed, quarantine, clock, faults, rq, dl, pdf>>

\* recommendation_engine.py 1-7: the score is the caller's own, or the value
\* calculate_risk has just returned
Recommend ==
  /\ \/ /\ ra.fn = ""
        /\ \E risk_score \in Aggregates :
             ra' = Call("recommend", <<risk_score>>, "", recommend(risk_score), <<>>)
     \/ /\ ra.fn = "calculate_risk"
        /\ ra' = Call("recommend", <<ra.ret>>, "", recommend(ra.ret), Prev(ra))
  /\ UNCHANGED <<uploads, reconstructed, quarantine, clock, faults, rq, dl, pdf>>

RiskNext == CommunityScore \/ CalculateRisk \/ Recommend

RiskSpec == Init /\ [][RiskNext]_vars

(***************************************************************************)
(* What the caller is told: FastAPI answers an exception that leaves a     *)
(* handler with 500 Internal Server Error, whatever the exception is.      *)
(***************************************************************************)
Reported(slot) == IF slot.status = "success" THEN "success" ELSE "error"

(***************************************************************************)
(* Properties.                                                             *)
(***************************************************************************)
\* request r takes the step from position from to position to
Goes(slot, r, from, to) == slot[r].pc = from /\ slot'[r].pc = to

\* the entries of the quarantine directory that belong to digest sha
EntriesOf(dir, sha) == {p \in DOMAIN dir : p[1] = sha}

\* C1: a request whose sanitizer step raises ends with the quarantine as it
\* was and with the uploaded original, unchanged, at its upload location; and
\* the move into quarantine is taken only by a request whose sanitizer
\* succeeded and whose clean file is written.
C1_QuarantineOnlyAfterSanitize ==
  [][\A r \in Slots(Reqs) :
       /\ (Goes(rq, r, "sanitize", "done") /\ rq'[r].raisedAt = "sanitize") =>
            /\ quarantine' = quarantine
            /\ SavedPath(rq[r].filename) \in DOMAIN uploads'
            /\ uploads'[SavedPath(rq[r].filename)] = rq[r].body
       /\ Goes(rq, r, "move", "meta_open") =>
            /\ Dispatch(rq[r].ext, rq[r].body).raise = ""
            /\ CleanPath(rq[r].filename) \in DOMAIN reconstructed
            /\ reconstructed[CleanPath(rq[r].filename)] = Dispatch(rq[r].ext, rq[r].body).out
     ]_vars

\* C1 witness: a request ended by its sanitizer's exception while the upload
\* directory still holds a file and the quarantine holds nothing.
C1_Witness ==
  \E r \in Slots(Reqs) :
    /\ rq[r].pc = "done"
    /\ rq[r].status = "SanitizeError"
    /\ rq[r].raisedAt = "sanitize"
    /\ DOMAIN uploads # {}
    /\ DOMAIN quarantine = {}

\* the lower-cased name ends with a dot and one of pdf, docx, txt, and a
\* character that is no dot stands before that dot
HasSupportedSuffix(filename) ==
  \E k \in 2..Len(filename) :
    /\ filename[k] = "."
    /\ \A j \in (k + 1)..Len(filename) : filename[j] # "."
    /\ \E j \in 1..(k - 1) : filename[j] # "."
    /\ Lower(SubSeq(filename, k + 1, Len(filename)))
         \in {<<"p", "d", "f">>, <<"d", "o", "c", "x">>, <<"t", "x", "t">>}

\* C2: the step that takes a request into the handler leaves the three
\* stores as they were; the request fails there with ValueError exactly when
\* its filename is empty or has no supported extension, in any letter case.
C2_ValidateBeforePersist ==
  [][\A r \in Slots(Reqs) :
       (rq[r].pc = "idle" /\ rq'[r].pc # "idle") =>
         /\ stores' = stores
         /\ rq'[r].pc \in {"done", "save_open"}
         /\ rq'[r].pc = "done" <=> ~HasSupportedSuffix(rq'[r].filename)
         /\ rq'[r].pc = "done" => rq'[r].status = "ValueError"
         /\ rq'[r].pc = "save_open" => rq'[r].ext = Lower(SplitExt(rq'[r].filename))
     ]_vars

\* C2 witness: one request was refused for its name with nothing stored, and
\* another passed the gate with an upper-case letter in its extension.
C2_Witness ==
  \E r, o \in Slots(Reqs) :
    /\ rq[r].pc = "done" /\ rq[r].status = "ValueError"
    /\ rq[o].pc = "save_open" /\ rq[o].filename # Lower(rq[o].filename)
    /\ DOMAIN uploads = {} /\ DOMAIN reconstructed = {} /\ DOMAIN quarantine = {}

\* C3: the step that ends a reconstruct with success leaves, under the
\* returned digest, an artifact whose bytes are the uploaded original (so
\* their digest is the returned one) and a sidecar recording that digest, the
\* reason and the time this request read, and no file at the upload location.
C3_OriginalMovedToQuarantine ==
  [][\A r \in Slots(Reqs) :
       (Goes(rq, r, "meta_dump", "done") /\ rq'[r].status = "success") =>
         LET d == rq'[r].file_hash
         IN  /\ DestPath(d) \in DOMAIN quarantine'
             /\ quarantine'[DestPath(d)] = rq[r].body
             /\ Sha256(quarantine'[DestPath(d)]) = d
             /\ MetaPath(DestPath(d)) \in DOMAIN quarantine'
             /\ IsJson(quarantine'[MetaPath(DestPath(d))])
             /\ JsonLoad(quarantine'[MetaPath(DestPath(d))])
                  = [hash |-> d, reason |-> "reconstruction", time |-> rq[r].time]
             /\ SavedPath(rq[r].filename) \notin DOMAIN uploads'
     ]_vars

\* C3 witness: a reconstruct has returned a digest, the quarantine holds the
\* artifact and the sidecar under it, and the upload location is empty.
C3_Witness ==
  \E r \in Slots(Reqs) :
    /\ rq[r].pc = "done" /\ rq[r].status = "success"
    /\ DestPath(rq[r].file_hash) \in DOMAIN quarantine
    /\ Sha256(quarantine[DestPath(rq[r].file_hash)]) = rq[r].file_hash
    /\ MetaPath(DestPath(rq[r].file_hash)) \in DOMAIN quarantine
    /\ SavedPath(rq[r].filename) \notin DOMAIN uploads

\* C4: a store for a digest whose artifact is already held intact leaves the
\* quarantine's artifacts as they are; and when a store succeeds the digest
\* has exactly its one artifact, equal to the original content, and its one
\* sidecar, whose reason and time are those of this, the last, store, while
\* the entries of every other digest are as before.
C4_StoreIdempotentLastWriteWins ==
  [][\A r \in Slots(Reqs) :
       LET d == rq[r].file_hash
       IN  /\ ( /\ Goes(rq, r, "move", "meta_open")
                /\ DestPath(d) \in DOMAIN quarantine
                /\ quarantine[DestPath(d)] = rq[r].body )
              => quarantine' = quarantine
           /\ (Goes(rq, r, "meta_dump", "done") /\ rq'[r].status = "success") =>
                /\ EntriesOf(quarantine', d) = {DestPath(d), MetaPath(DestPath(d))}
                /\ quarantine'[DestPath(d)] = quarantine[DestPath(d)]
                /\ Sha256(quarantine'[DestPath(d)]) = d
                /\ quarantine'[MetaPath(DestPath(d))]
                     = JsonDump([hash |-> d, reason |-> "reconstruction", time |-> rq[r].time])
                /\ JsonLoad(quarantine'[MetaPath(DestPath(d))]).time = rq[r].time
                /\ \A p \in (DOMAIN quarantine \cup DOMAIN quarantine') \ EntriesOf(quarantine', d) :
                     p \in DOMAIN quarantine /\ p \in DOMAIN quarantine' /\ quarantine'[p] = quarantine[p]
     ]_vars

\* C4 witness: two reconstructs of the same content have both succeeded, the
\* quarantine holds that digest's two entries and nothing else, and the
\* sidecar carries a later time than the first store can have read.
C4_Witness ==
  /\ \A r \in Slots(Reqs) : rq[r].pc = "done" /\ rq[r].status = "success"
  /\ \A r, o \in Slots(Reqs) : rq[r].file_hash = rq[o].file_hash
  /\ \E r \in Slots(Reqs) :
       /\ DOMAIN quarantine = {DestPath(rq[r].file_hash), MetaPath(DestPath(rq[r].file_hash))}
       /\ IsJson(quarantine[MetaPath(DestPath(rq[r].file_hash))])
       /\ JsonLoad(quarantine[MetaPath(DestPath(rq[r].file_hash))]).time > 0

\* C5: when the store fails, at the move or at the sidecar write, the
\* original is still at its upload location and the quarantine holds no
\* artifact of the digest without a well-formed sidecar.
C5_StoreAllOrNothing ==
  [][\A r \in Slots(Reqs) :
       ( /\ rq[r].pc \in {"move", "meta_open", "meta_dump"}
         /\ rq'[r].pc = "done"
         /\ rq'[r].status # "success" ) =>
         LET d == rq[r].file_hash
         IN  /\ SavedPath(rq[r].filename) \in DOMAIN uploads'
             /\ uploads'[SavedPath(rq[r].filename)] = rq[r].body
             /\ DestPath(d) \in DOMAIN quarantine' =>
                  /\ MetaPath(DestPath(d)) \in DOMAIN quarantine'
                  /\ IsJson(quarantine'[MetaPath(DestPath(d))])
     ]_vars

\* C6: a step of destroy(digest) taken while the quarantine holds neither
\* the artifact nor the sidecar of the digest changes no store and raises
\* nothing, and the handler goes on to return success; so it is on every
\* repetition.
C6_DestroyAbsentIsNoOp ==
  [][\A t \in Slots(Threads) :
       LET d == dl'[t].file_hash
       IN  ( /\ dl'[t] # dl[t]
             /\ DestPath(d) \notin DOMAIN quarantine
             /\ MetaPath(DestPath(d)) \notin DOMAIN quarantine ) =>
             /\ stores' = stores
             /\ dl'[t].pc \in {"main_exists", "done"}
             /\ dl'[t].pc = "done" => dl'[t].status = "success" /\ Reported(dl'[t]) = "success"
     ]_vars

\* C6 witness: an upload of a content succeeded and two destroys of its
\* digest both returned success, so one of them found nothing to delete; the
\* quarantine holds nothing of the digest.
C6_Witness ==
  \E r \in Slots(Reqs) :
    /\ rq[r].pc = "done" /\ rq[r].status = "success"
    /\ \A t \in Slots(Threads) :
         dl[t].pc = "done" /\ dl[t].status = "success" /\ dl[t].file_hash = rq[r].file_hash
    /\ EntriesOf(quarantine, rq[r].file_hash) = {}

\* C7: a destroy that fails in the middle of its sequence (in an overwrite
\* pass or at the unlink, of the artifact or of the sidecar) is reported with
\* a status of its own: neither success nor the generic error.
C7_PartialFailureReported ==
  \A t \in Slots(Threads) :
    (dl[t].pc = "done" /\ dl[t].raisedAt \in {"write", "remove"}) =>
      Reported(dl[t]) \notin {"success", "error"}

\* C8: every step of destroy(digest) leaves uploads, reconstructed and the
\* quarantine entries of the other digests as they are, and the step that
\* returns success leaves the quarantine without the digest's artifact and
\* without its sidecar.
C8_DestroyRemovesOnlyItsRecord ==
  [][\A t \in Slots(Threads) :
       (Running(dl[t]) /\ dl'[t] # dl[t]) =>
         LET d == dl[t].file_hash
             own == {DestPath(d), MetaPath(DestPath(d))}
         IN  /\ uploads' = uploads
             /\ reconstructed' = reconstructed
             /\ \A p \in (DOMAIN quarantine \cup DOMAIN quarantine') \ own :
                  p \in DOMAIN quarantine /\ p \in DOMAIN quarantine' /\ quarantine'[p] = quarantine[p]
             /\ (dl'[t].pc = "done" /\ dl'[t].status = "success") =>
                  EntriesOf(quarantine', d) = {}
     ]_vars

\* C8 witness: a destroy returned success for the digest a reconstruct had
\* stored, nothing of that digest is left, and another digest's artifact and
\* sidecar are still held.
C8_Witness ==
  \E r, o \in Slots(Reqs), t \in Slots(Threads) :
    /\ rq[r].pc = "done" /\ rq[r].status = "success"
    /\ rq[o].pc = "done" /\ rq[o].status = "success"
    /\ rq[o].file_hash # rq[r].file_hash
    /\ dl[t].pc = "done" /\ dl[t].status = "success" /\ dl[t].file_hash = rq[r].file_hash
    /\ EntriesOf(quarantine, rq[r].file_hash) = {}
    /\ EntriesOf(quarantine, rq[o].file_hash)
         = {DestPath(rq[o].file_hash), MetaPath(DestPath(rq[o].file_hash))}

\* C9: once one reconstruct of a content and one destroy of its digest have
\* both completed, the quarantine holds both the artifact and the sidecar of
\* the digest, or neither.
C9_DeleteNeverInterleavesStore ==
  \A r \in Slots(Reqs), t \in Slots(Threads) :
    ( /\ Arrived = 2
      /\ rq[r].pc = "done" /\ rq[r].status = "success"
      /\ dl[t].pc = "done" /\ dl[t].status = "success"
      /\ dl[t].file_hash = rq[r].file_hash ) =>
      (DestPath(rq[r].file_hash) \in DOMAIN quarantine
         <=> MetaPath(DestPath(rq[r].file_hash)) \in DOMAIN quarantine)

\* no delete request has arrived
NoDelete == \A t \in Slots(Threads) : dl[t].pc = "idle"

\* C10: with two reconstruct requests in the server and no delete, a request
\* fails only for its own input (the name, the content its sanitizer
\* refuses) or a storage failure, never for what the other request did; and
\* when both have succeeded with the same digest the quarantine holds exactly
\* the one artifact, whose digest it is, and the one well-formed sidecar with
\* that digest, the reason and a time that was read.
C10_ConcurrentUploadsSameContent ==
  /\ [](( /\ NoDelete
          /\ \A r \in Slots(Reqs) : rq[r].pc = "done" /\ rq[r].status = "success"
          /\ \A r, o \in Slots(Reqs) : rq[r].file_hash = rq[o].file_hash ) =>
          \A r \in Slots(Reqs) :
            LET dest == DestPath(rq[r].file_hash)
            IN  /\ DOMAIN quarantine = {dest, MetaPath(dest)}
                /\ Sha256(quarantine[dest]) = rq[r].file_hash
                /\ IsJson(quarantine[MetaPath(dest)])
                /\ JsonLoad(quarantine[MetaPath(dest)]).hash = rq[r].file_hash
                /\ JsonLoad(quarantine[MetaPath(dest)]).reason = "reconstruction"
                /\ JsonLoad(quarantine[MetaPath(dest)]).time <= clock)
  /\ [][\A r \in Slots(Reqs) :
          (NoDelete /\ Running(rq[r]) /\ rq'[r].pc = "done" /\ rq'[r].status # "success") =>
            \/ rq'[r].status = "IOError" /\ faults' = faults + 1
            \/ /\ rq'[r].status = "SanitizeError"
               /\ Dispatch(rq[r].ext, rq[r].body).raise = "SanitizeError"
     ]_vars

\* C10 witness: two reconstructs of the same content under the same filename
\* have both succeeded, with no delete, and the quarantine holds the digest's
\* two entries.
C10_Witness ==
  /\ NoDelete
  /\ \A r \in Slots(Reqs) : rq[r].pc = "done" /\ rq[r].status = "success"
  /\ \A r, o \in Slots(Reqs) :
       rq[r].file_hash = rq[o].file_hash /\ rq[r].filename = rq[o].filename
  /\ Cardinality(DOMAIN quarantine) = 2

\* the /AA dictionaries left below the root: on a page or on an annotation
NestedAA(doc) ==
  { <<i, j>> \in (1..Len(doc.pages)) \X (0..MaxAnnots) :
      IF j = 0 THEN "/AA" \in doc.pages[i].dict
      ELSE j <= Len(doc.pages[i].annots) /\ "/AA" \in doc.pages[i].annots[j] }

\* C11: the document sanitize_pdf writes for a well-formed input has no
\* /OpenAction, no /AcroForm, no /AA on the root, on a page or on an
\* annotation, and no /JavaScript in the name dictionary; and it has as many
\* pages as the input.
C11_PdfOutputHasNoForbiddenConstruct ==
  pdf.out # <<>> =>
    /\ pdf.out[1].root \cap {"/OpenAction", "/AA", "/AcroForm"} = {}
    /\ "/JavaScript" \notin pdf.out[1].names
    /\ NestedAA(pdf.out[1]) = {}
    /\ Len(pdf.out[1].pages) = Len(pdf.input.pages)

\* C12: a second call of sanitize_pdf, on the document the first call wrote,
\* writes that document again: it deletes nothing.
C12_SanitizePdfFixpoint ==
  Len(pdf.out) >= 2 => pdf.out[2] = pdf.out[1]

\* C12 witness: two calls were made on a document that has every key the
\* sanitizer deletes, and the first call deleted them.
C12_Witness ==
  /\ Len(pdf.out) = 2
  /\ {"/OpenAction", "/AA", "/AcroForm", "/Names"} \subseteq pdf.input.root
  /\ "/JavaScript" \in pdf.input.names
  /\ pdf.out[1] # pdf.input
  /\ pdf.out[1].root = {"/Names"}

\* what the sanitizer of a recognized tag writes for a file
SanitizerOutput(ext, bytes) ==
  IF ext = <<".", "p", "d", "f">> THEN sanitize_pdf(bytes).out
  ELSE IF ext = <<".", "d", "o", "c", "x">> THEN sanitize_docx(bytes).out
  ELSE sanitize_txt(bytes).out

\* C13: every step that changes the reconstructed store is the sanitizer
\* step of a request with one of the three recognized tags, and what it puts
\* at the request's clean path is the output of the sanitizer of that tag for
\* the uploaded file (an empty file when the write itself failed), never the
\* file as uploaded; a request whose filename has none of the three tags
\* fails on entry, for its file type, with the three stores as they were; and
\* the dispatcher's own last branch rejects every other tag without output.
C13_NeverUnsanitized ==
  [][/\ reconstructed' # reconstructed =>
          \E r \in Slots(Reqs) :
            /\ rq[r].pc = "sanitize"
            /\ rq[r].ext \in {<<".", "p", "d", "f">>, <<".", "d", "o", "c", "x">>, <<".", "t", "x", "t">>}
            /\ SavedPath(rq[r].filename) \in DOMAIN uploads
            /\ reconstructed' =
                 PutFile(reconstructed, CleanPath(rq[r].filename),
                         IF rq'[r].pc = "move"
                           THEN SanitizerOutput(rq[r].ext, uploads[SavedPath(rq[r].filename)])
                           ELSE <<>>)
     /\ \A r \in Slots(Reqs) :
          (rq[r].pc = "idle" /\ rq'[r].pc # "idle" /\ ~HasSupportedSuffix(rq'[r].filename)) =>
            /\ rq'[r].pc = "done"
            /\ rq'[r].status = "ValueError"
            /\ rq'[r].raisedAt = "validate"
            /\ stores' = stores
     /\ \A name \in Filenames, bytes \in Contents :
          ~HasSupportedSuffix(name) =>
            Dispatch(Lower(SplitExt(name)), bytes) = [raise |-> "HTTPException", out |-> <<>>]
    ]_vars

\* C13 witness: a text upload is sanitized, with the banner and not as it was
\* uploaded, and a request for an executable was refused with nothing more
\* stored.
C13_Witness ==
  \E r, o \in Slots(Reqs) :
    /\ rq[r].pc = "done" /\ rq[r].status = "success"
    /\ rq[r].filename = <<"n", ".", "t", "x", "t">>
    /\ CleanPath(rq[r].filename) \in DOMAIN reconstructed
    /\ reconstructed[CleanPath(rq[r].filename)] = Banner \o <<0>>
    /\ rq[o].pc = "done" /\ rq[o].status = "ValueError"
    /\ rq[o].filename = <<"x", ".", "e", "x", "e">>
    /\ DOMAIN reconstructed = {CleanPath(rq[r].filename)}
    /\ DOMAIN uploads = {}

\* the sum of the four arguments of a calculate_risk call
ArgSum(call) == call.args[1] + call.args[2] + call.args[3] + call.args[4]

\* C14: for four component scores none of which is negative, calculate_risk
\* returns their sum when it is at most 100 and 100 when it is more, so a
\* value in 0..100; and for 40, 40, 10, 20 it returns 100.
C14_CalculateRiskSaturates ==
  (ra.fn = "calculate_risk" /\ \A i \in 1..4 : ra.args[i] >= 0) =>
    /\ ra.ret \in 0..100
    /\ ArgSum(ra) <= 100 => ra.ret = ArgSum(ra)
    /\ ArgSum(ra) > 100 => ra.ret = 100
    /\ ra.args = <<40, 40, 10, 20>> => ra.ret = 100

\* C14 witness: calculate_risk was called with 40, 40, 10 and the 20 that
\* community_score returned, a sum of 110.
C14_Witness ==
  /\ ra.fn = "calculate_risk"
  /\ ra.args = <<40, 40, 10, 20>>
  /\ ra.prev # <<>>
  /\ ra.ret = 100

\* C15: whatever the four component scores are, negative ones included,
\* calculate_risk returns a value in 0..100.
C15_AggregateInRange ==
  ra.fn = "calculate_risk" => ra.ret \in 0..100

\* the tiers in the order of their severity
Severity(advice) ==
  IF advice = "File appears safe. No action required." THEN 0
  ELSE IF advice = "Quarantine the file and avoid execution." THEN 1
  ELSE IF advice = "Delete immediately. High risk malware detected." THEN 2
  ELSE 3

\* C16: for a score in 0..100 recommend returns the delete tier from 70 on,
\* the quarantine tier from 30 to 69 and the safe tier below 30; a higher
\* score never gets a lower tier; and the score calculate_risk returns for
\* 40, 40, 10, 20 gets the delete tier.
C16_RecommendTiers ==
  (ra.fn = "recommend" /\ ra.args[1] \in 0..100) =>
    /\ Severity(ra.ret) = (IF ra.args[1] >= 70 THEN 2 ELSE IF ra.args[1] >= 30 THEN 1 ELSE 0)
    /\ \A lower \in 0..ra.args[1] : Severity(recommend(lower)) <= Severity(ra.ret)
    /\ (ra.prev # <<>> /\ ra.prev[1].args = <<40, 40, 10, 20>>) => Severity(ra.ret) = 2

\* C16 witness: recommend was called on the edge of a tier, at 30.
C16_Witness ==
  /\ ra.fn = "recommend"
  /\ ra.args = <<30>>
  /\ Severity(ra.ret) = 1

\* the whole number nearest a / b for a >= 0 and b > 0, a tie going to the
\* even one, as round() does
Round(a, b) ==
  LET q == a \div b
      twice == 2 * (a % b)
  IN  IF twice < b THEN q
      ELSE IF twice > b THEN q + 1
      ELSE IF q % 2 = 0 THEN q ELSE q + 1

\* the record a community_score call found
Data(call) == call.args[1][call.args[2]]

\* C17: for a record with at least one vote community_score returns the
\* share of malicious votes scaled to 20 and rounded to the nearest whole
\* number, a value in 0..20.
C17_CommunityScoreRounds ==
  (/\ ra.fn = "community_score"
   /\ ra.args[2] \in DOMAIN ra.args[1]
   /\ Data(ra).malicious + Data(ra).clean > 0) =>
    /\ ra.raise = ""
    /\ ra.ret = Round(Data(ra).malicious * 20, Data(ra).malicious + Data(ra).clean)
    /\ ra.ret \in 0..20

\* C18: community_score returns 0 and raises nothing for a digest without
\* votes: one that has no record, and one whose record counts 0 and 0.
C18_NoVotesScoresZero ==
  (/\ ra.fn = "community_score"
   /\ ra.args[2] \in DOMAIN ra.args[1] => Data(ra).malicious + Data(ra).clean = 0) =>
    /\ ra.raise = ""
    /\ ra.ret = 0

\* C19: secure_delete makes Passes passes over an existing file of length n;
\* after each pass, and so just before the unlink, the file's length is n;
\* and the step that unlinks leaves no file at the path.
C19_PassesKeepLength ==
  /\ [](\A t \in Slots(Threads) :
          /\ dl[t].pc \in {"write", "remove"} => dl[t].pass <= Passes
          /\ dl[t].pc = "remove" => dl[t].pass = Passes
          /\ (/\ dl[t].pc \in {"write", "remove"}
              /\ dl[t].pass >= 1
              /\ dl[t].path \in DOMAIN quarantine) =>
               Len(quarantine[dl[t].path]) = dl[t].size)
  /\ [][\A t \in Slots(Threads) :
          (dl[t].pc = "remove" /\ dl'[t].pc # "remove" /\ dl'[t].status = "") =>
            dl[t].path \notin DOMAIN quarantine']_vars

\* the uploaded bodies whose digest is sha
BodiesOf(sha) == {body \in Contents : Sha256(body) = sha}

\* C20: the upload and the clean file of a request are kept under its
\* filename: every entry of reconstructed/ is the clean path of a filename,
\* and when a reconstruct returns success the one entry for its filename is
\* the sanitization of the file this request uploaded, whatever an earlier
\* request left under that name; the steps of a reconstruct leave the
\* quarantined entries of every other digest as they are.
C20_OutputsKeyedByFilename ==
  /\ [](\A p \in DOMAIN reconstructed : \E name \in Filenames : p = CleanPath(name))
  /\ [][\A r \in Slots(Reqs) :
          /\ Goes(rq, r, "save_open", "save_copy") =>
               SavedPath(rq[r].filename) \in DOMAIN uploads'
          /\ (Goes(rq, r, "meta_dump", "done") /\ rq'[r].status = "success") =>
               /\ CleanPath(rq[r].filename) \in DOMAIN reconstructed'
               /\ reconstructed'[CleanPath(rq[r].filename)]
                    = SanitizerOutput(rq[r].ext, rq[r].body)
          /\ (Running(rq[r]) /\ rq'[r] # rq[r]) =>
               \A q \in DOMAIN quarantine :
                 q[1] # rq[r].file_hash =>
                   q \in DOMAIN quarantine' /\ quarantine'[q] = quarantine[q]
       ]_vars

\* C20 witness: two requests uploaded different content under one filename
\* and both returned success; reconstructed/ has the single entry for the
\* name, the sanitization of one upload and not of the other, and the
\* quarantine has both originals.
C20_Witness ==
  \E r, o \in Slots(Reqs) :
    /\ rq[r].pc = "done" /\ rq[r].status = "success"
    /\ rq[o].pc = "done" /\ rq[o].status = "success"
    /\ rq[r].filename = rq[o].filename
    /\ rq[r].file_hash # rq[o].file_hash
    /\ DOMAIN reconstructed = {CleanPath(rq[r].filename)}
    /\ \E body \in BodiesOf(rq[o].file_hash) :
         reconstructed[CleanPath(rq[o].filename)] = sanitize_txt(body).out
    /\ \A body \in BodiesOf(rq[r].file_hash) :
         reconstructed[CleanPath(rq[r].filename)] # sanitize_txt(body).out
    /\ {DestPath(rq[r].file_hash), DestPath(rq[o].file_hash)} \subseteq DOMAIN quarantine
====
